---- MODULE Spec2Model ----
(***************************************************************************)
(* Model of the useEventSource hook (react-eventsource-hook): one session  *)
(* that owns a readyState, a lastEventId, a retry counter, the current     *)
(* AbortController and the retry timers its error callback schedules.      *)
(* The transport (fetchEventSource) and the document's visibility are the  *)
(* environment: they call the hook's callbacks and handlers.               *)
(***************************************************************************)
EXTENDS Integers, Sequences, FiniteSets, Bags, TLC

\* ------------------------------------------------------------------ bounds
MaxAttempts == 3   \* AbortControllers created in one run
MaxEvents == 2     \* messages delivered in one run
MaxTimers == 2     \* setTimeout callbacks outstanding at once
MaxRetry == 6      \* retryCountRef.current is not pushed beyond this

\* --------------------------------------------------------------- constants
CONNECTING == 0
OPEN == 1
CLOSED == 2

Undefined == -1            \* an option that was not given (undefined)
NoError == "undefined"     \* useState<any>() with no initial value
Null == "<undefined>"      \* a message whose id field is absent
NoHeader == "<absent>"     \* the request carries no Last-Event-ID header

RetryIntervalMsValues == {Undefined, 1000}
MaxRetryIntervalMsValues == {Undefined, 30000}
MessageIds == {Null, "a"}
Errors == {"e1"}

VARIABLES
    life,               \* "init" (rendered, effects not run), "mounted", "unmounted"
    retryIntervalMs,    \* options.retryIntervalMs
    maxRetryIntervalMs, \* options.maxRetryIntervalMs
    pauseOnHidden,      \* options.pauseOnHidden
    readyState,         \* useState<0|1|2>(0)
    lastEventId,        \* useState<string>("")
    error,              \* useState<any>()
    events,             \* useState<EventSourceMessage[]>([])
    controllerRef,      \* controllerRef.current: 0 is null, else an index of attempts
    retryCount,         \* retryCountRef.current
    attempts,           \* every AbortController made by start(), with its request
    queued,             \* the attempt aborted by the last step whose callbacks
                        \* were already queued (0: none)
    timers,             \* the setTimeout callbacks not yet run (a bag)
    startLastEventId,   \* the lastEventId the current start closure has captured
    requestHeader,      \* Last-Event-ID header of the request opened last
    hidden,             \* document.hidden
    op,                 \* history: the operation of the last step
    opCtl,              \* history: the attempt whose callback or timer ran last
    observed,           \* history: the observer the last step invoked
    lastStateEvent,     \* history: the last start/open/error/close event
    failures,           \* history: error callbacks since the last open callback
    lastEventIdAtStart, \* history: lastEventId when the last request was opened
    scheduled,          \* history: the delay the last step gave setTimeout
    thrown              \* history: what the callback of the last step threw

vars == <<life, retryIntervalMs, maxRetryIntervalMs, pauseOnHidden, readyState,
          lastEventId, error, events, controllerRef, retryCount, attempts,
          queued, timers, startLastEventId, requestHeader, hidden, op, opCtl,
          observed, lastStateEvent, failures, lastEventIdAtStart,
          scheduled, thrown>>

config == <<retryIntervalMs, maxRetryIntervalMs, pauseOnHidden>>

\* ------------------------------------------------------------ pure helpers
Min(a, b) == IF a <= b THEN a ELSE b

\* Backoff with the cap left out.
Backoff_uncapped(base, cap, n) == base * 2^n

\* Math.min(retryIntervalMs * 2 ** n, maxRetryIntervalMs ?? Infinity)
Backoff(base, cap, n) ==
    IF cap = Undefined THEN base * 2^n ELSE Min(base * 2^n, cap)

\* The retry branch taken without the null check.
RetryEnabled_unchecked(base) == TRUE

\* retryIntervalMs != null
RetryEnabled(base) == base # Undefined

\* message.id ?? ""
IdOrEmpty(id) == IF id = Null THEN "" ELSE id

\* if (lastEventId) headersRecord["Last-Event-ID"] = lastEventId
LastEventIdHeader(lei) == IF lei # "" THEN lei ELSE NoHeader

\* start() and close() with the abort of the previous controller left out.
abort_skipped(att, ref) == att

\* controllerRef.current?.abort()
abort(att, ref) ==
    IF ref = 0 THEN att ELSE [att EXCEPT ![ref].aborted = TRUE]

\* new AbortController() and the request fetchEventSource opens with it
NewAttempt == [aborted |-> FALSE, phase |-> "connecting"]

\* The timer callback without the signal check.
TimerLive_unchecked(att, t) == TRUE

\* The timer body never calling start().
TimerLive_never(att, t) == FALSE

\* if (!controller.signal.aborted) start()
TimerLive(att, t) == ~att[t.ctl].aborted

\* The attempt that aborting controllerRef.current leaves with callbacks
\* already queued: the transport stops calling back promptly after an abort,
\* not before what it had queued has run.
QueuedByAbort ==
    IF /\ controllerRef # 0
       /\ ~attempts[controllerRef].aborted
       /\ attempts[controllerRef].phase \in {"connecting", "open"}
    THEN controllerRef ELSE 0

\* An aborted request with nothing queued calls back no more.
Settle(att, q) ==
    [i \in DOMAIN att |->
        IF att[i].aborted /\ i # q
        THEN [att[i] EXCEPT !.phase = "aborted"] ELSE att[i]]

\* ------------------------------------------------------------------- Init
Init ==
    /\ life = "init"
    /\ retryIntervalMs \in RetryIntervalMsValues
    /\ maxRetryIntervalMs \in MaxRetryIntervalMsValues
    /\ pauseOnHidden \in BOOLEAN
    /\ readyState = CONNECTING
    /\ lastEventId = ""
    /\ error = NoError
    /\ events = <<>>
    /\ controllerRef = 0
    /\ retryCount = 0
    /\ attempts = <<>>
    /\ queued = 0
    /\ timers = EmptyBag
    /\ startLastEventId = ""
    /\ requestHeader = NoHeader
    /\ hidden \in BOOLEAN
    /\ op = "render"
    /\ opCtl = 0
    /\ observed = "none"
    /\ lastStateEvent = "none"
    /\ failures = 0
    /\ lastEventIdAtStart = ""
    /\ scheduled = Undefined
    /\ thrown = NoError

\* ------------------------------------------------------------------ start
\* start(), as the closure that captured lei runs it: abort the current
\* controller, install a new one, set CONNECTING, open the request.
start(lei) ==
    /\ Len(attempts) < MaxAttempts
    /\ attempts' = Append(Settle(abort(attempts, controllerRef), QueuedByAbort),
                          NewAttempt)
    /\ queued' = QueuedByAbort
    /\ controllerRef' = Len(attempts) + 1
    /\ readyState' = CONNECTING
    /\ requestHeader' = LastEventIdHeader(lei)
    /\ lastStateEvent' = "start"
    /\ lastEventIdAtStart' = lastEventId

\* controllerRef.current?.abort() on its own (close, hidden, unmount)
abortCurrent ==
    /\ attempts' = Settle(abort(attempts, controllerRef), QueuedByAbort)
    /\ queued' = QueuedByAbort

\* useEffect(() => { start(); ... }, [start]) on mount
Mount ==
    /\ life = "init"
    /\ life' = "mounted"
    /\ start(startLastEventId)
    /\ op' = "mount" /\ opCtl' = 0 /\ observed' = "none" /\ scheduled' = Undefined /\ thrown' = NoError
    /\ UNCHANGED <<config, lastEventId, error, events, retryCount, timers,
                   startLastEventId, hidden, failures>>

\* reconnect() that also starts the backoff over.
reconnect_resetsRetry ==
    /\ life = "mounted"
    /\ start(startLastEventId)
    /\ retryCount' = 0
    /\ op' = "reconnect" /\ opCtl' = 0 /\ observed' = "none" /\ scheduled' = Undefined /\ thrown' = NoError
    /\ UNCHANGED <<life, config, lastEventId, error, events,
                   timers, startLastEventId, hidden, failures>>

\* reconnect()
reconnect ==
    /\ life = "mounted"
    /\ start(startLastEventId)
    /\ op' = "reconnect" /\ opCtl' = 0 /\ observed' = "none" /\ scheduled' = Undefined /\ thrown' = NoError
    /\ UNCHANGED <<life, config, lastEventId, error, events, retryCount,
                   timers, startLastEventId, hidden, failures>>

\* close() with setReadyState(2) left out.
close_keepsState ==
    /\ life = "mounted"
    /\ abortCurrent
    /\ lastStateEvent' = "close"
    /\ op' = "close" /\ opCtl' = 0 /\ observed' = "none" /\ scheduled' = Undefined /\ thrown' = NoError
    /\ UNCHANGED <<life, config, readyState, lastEventId, error, events,
                   controllerRef, retryCount, timers, startLastEventId,
                   requestHeader, hidden, failures, lastEventIdAtStart>>

\* close() with the abort left out: only setReadyState(2).
close_keepsConnection ==
    /\ life = "mounted"
    /\ attempts' = Settle(attempts, 0)
    /\ queued' = 0
    /\ readyState' = CLOSED
    /\ lastStateEvent' = "close"
    /\ op' = "close" /\ opCtl' = 0 /\ observed' = "none" /\ scheduled' = Undefined /\ thrown' = NoError
    /\ UNCHANGED <<life, config, lastEventId, error, events, controllerRef,
                   retryCount, timers, startLastEventId, requestHeader, hidden,
                   failures, lastEventIdAtStart>>

\* close()
close ==
    /\ life = "mounted"
    /\ abortCurrent
    /\ readyState' = CLOSED
    /\ lastStateEvent' = "close"
    /\ op' = "close" /\ opCtl' = 0 /\ observed' = "none" /\ scheduled' = Undefined /\ thrown' = NoError
    /\ UNCHANGED <<life, config, lastEventId, error, events, controllerRef,
                   retryCount, timers, startLastEventId, requestHeader, hidden,
                   failures, lastEventIdAtStart>>

\* useEffect cleanup and re-run when start changes identity (url, init, fetch,
\* withCredentials, retryIntervalMs or maxRetryIntervalMs changed in a render):
\* the new closure captures the lastEventId of that render.
OptionsChange ==
    /\ life = "mounted"
    /\ startLastEventId' = lastEventId
    /\ start(lastEventId)
    /\ op' = "optionsChange" /\ opCtl' = 0 /\ observed' = "none" /\ scheduled' = Undefined /\ thrown' = NoError
    /\ UNCHANGED <<life, config, lastEventId, error, events, retryCount,
                   timers, hidden, failures>>

\* Unmount whose effect cleanup does not abort the controller.
Unmount_noCleanup ==
    /\ life = "mounted"
    /\ life' = "unmounted"
    /\ attempts' = Settle(attempts, 0)
    /\ queued' = 0
    /\ op' = "unmount" /\ opCtl' = 0 /\ observed' = "none" /\ scheduled' = Undefined /\ thrown' = NoError
    /\ UNCHANGED <<config, readyState, lastEventId, error, events,
                   controllerRef, retryCount, timers, startLastEventId,
                   requestHeader, hidden, lastStateEvent, failures,
                   lastEventIdAtStart>>

\* the auto-start effect's cleanup on unmount
Unmount ==
    /\ life = "mounted"
    /\ life' = "unmounted"
    /\ abortCurrent
    /\ op' = "unmount" /\ opCtl' = 0 /\ observed' = "none" /\ scheduled' = Undefined /\ thrown' = NoError
    /\ UNCHANGED <<config, readyState, lastEventId, error, events,
                   controllerRef, retryCount, timers, startLastEventId,
                   requestHeader, hidden, lastStateEvent, failures,
                   lastEventIdAtStart>>

\* The hidden branch reporting its own abort as an error.
visibilityHidden_asError ==
    /\ life = "mounted" /\ pauseOnHidden /\ ~hidden
    /\ hidden' = TRUE
    /\ abortCurrent
    /\ error' = "AbortError"
    /\ op' = "hidden" /\ opCtl' = 0 /\ observed' = "error" /\ scheduled' = Undefined /\ thrown' = NoError
    /\ UNCHANGED <<life, config, readyState, lastEventId, events,
                   controllerRef, retryCount, timers, startLastEventId,
                   requestHeader, lastStateEvent, failures, lastEventIdAtStart>>

\* visibilitychange handler, document.hidden true
visibilityHidden ==
    /\ life = "mounted" /\ pauseOnHidden /\ ~hidden
    /\ hidden' = TRUE
    /\ abortCurrent
    /\ op' = "hidden" /\ opCtl' = 0 /\ observed' = "none" /\ scheduled' = Undefined /\ thrown' = NoError
    /\ UNCHANGED <<life, config, readyState, lastEventId, error, events,
                   controllerRef, retryCount, timers, startLastEventId,
                   requestHeader, lastStateEvent, failures, lastEventIdAtStart>>

\* The visible branch resetting the retry counter before start().
visibilityVisible_resetsRetry ==
    /\ life = "mounted" /\ pauseOnHidden /\ hidden
    /\ hidden' = FALSE
    /\ start(startLastEventId)
    /\ retryCount' = 0
    /\ op' = "visible" /\ opCtl' = 0 /\ observed' = "none" /\ scheduled' = Undefined /\ thrown' = NoError
    /\ UNCHANGED <<life, config, lastEventId, error, events, timers,
                   startLastEventId, failures>>

\* visibilitychange handler, document.hidden false
visibilityVisible ==
    /\ life = "mounted" /\ pauseOnHidden /\ hidden
    /\ hidden' = FALSE
    /\ start(startLastEventId)
    /\ op' = "visible" /\ opCtl' = 0 /\ observed' = "none" /\ scheduled' = Undefined /\ thrown' = NoError
    /\ UNCHANGED <<life, config, lastEventId, error, events, retryCount,
                   timers, startLastEventId, failures>>

\* setTimeout(() => { if (!controller.signal.aborted) start(); }, delay) runs
TimerFire(t) ==
    /\ BagIn(t, timers)
    /\ timers' = timers (-) SetToBag({t})
    /\ op' = "timer" /\ opCtl' = t.ctl /\ observed' = "none" /\ scheduled' = Undefined /\ thrown' = NoError
    /\ IF TimerLive(attempts, t)
       THEN start(t.closure)
       ELSE /\ attempts' = Settle(attempts, 0)
            /\ queued' = 0
            /\ UNCHANGED <<controllerRef, readyState, requestHeader,
                           lastStateEvent, lastEventIdAtStart>>
    /\ UNCHANGED <<life, config, lastEventId, error, events, retryCount,
                   startLastEventId, hidden, failures>>

\* ---------------------------------------------- fetchEventSource callbacks
\* A request calls back while it is not aborted, and after its abort for what
\* it had already queued.
CallsBack(a) ==
    /\ a \in 1..Len(attempts)
    /\ ~attempts[a].aborted \/ a = queued

StillQueued(a) == IF a = queued THEN queued ELSE 0

onopen(a) ==
    /\ CallsBack(a)
    /\ attempts[a].phase = "connecting"
    /\ attempts' = Settle([attempts EXCEPT ![a].phase = "open"], StillQueued(a))
    /\ queued' = StillQueued(a)
    /\ readyState' = OPEN
    /\ retryCount' = 0
    /\ observed' = "open" /\ scheduled' = Undefined /\ thrown' = NoError
    /\ lastStateEvent' = "open"
    /\ failures' = 0
    /\ op' = "onopen" /\ opCtl' = a
    /\ UNCHANGED <<life, config, lastEventId, error, events, controllerRef,
                   timers, startLastEventId, requestHeader, hidden,
                   lastEventIdAtStart>>

onmessage(a, id) ==
    /\ CallsBack(a)
    /\ attempts[a].phase = "open"
    /\ Len(events) < MaxEvents
    /\ attempts' = Settle(attempts, StillQueued(a))
    /\ queued' = StillQueued(a)
    /\ lastEventId' = IdOrEmpty(id)
    /\ events' = Append(events, [id |-> id])
    /\ observed' = "message" /\ scheduled' = Undefined /\ thrown' = NoError
    /\ op' = "onmessage" /\ opCtl' = a
    /\ UNCHANGED <<life, config, readyState, error, controllerRef, retryCount,
                   timers, startLastEventId, requestHeader, hidden,
                   lastStateEvent, failures, lastEventIdAtStart>>

\* onerror that keeps a retried error to itself: neither setError nor the
\* observer when a retry is scheduled.
onerror_silentRetry(a, err) ==
    /\ a \in 1..Len(attempts)
    /\ ~attempts[a].aborted
    /\ attempts[a].phase \in {"connecting", "open"}
    /\ queued' = 0
    /\ error' = IF RetryEnabled(retryIntervalMs) THEN error ELSE err
    /\ observed' = IF RetryEnabled(retryIntervalMs) THEN "none" ELSE "error"
    /\ readyState' = CLOSED
    /\ lastStateEvent' = "error"
    /\ op' = "onerror" /\ opCtl' = a
    /\ IF RetryEnabled(retryIntervalMs)
       THEN /\ retryCount < MaxRetry
            /\ BagCardinality(timers) < MaxTimers
            /\ scheduled' = Backoff(retryIntervalMs, maxRetryIntervalMs,
                                    retryCount)
            /\ thrown' = NoError
            /\ timers' = timers (+) SetToBag({[ctl |-> a,
                                               closure |-> startLastEventId]})
            /\ retryCount' = retryCount + 1
            /\ failures' = failures + 1
            /\ attempts' = Settle([attempts EXCEPT ![a].phase = "connecting"], 0)
       ELSE /\ attempts' = Settle([attempts EXCEPT ![a].phase = "failed"], 0)
            /\ scheduled' = Undefined
            /\ thrown' = err
            /\ UNCHANGED <<timers, retryCount, failures>>
    /\ UNCHANGED <<life, config, lastEventId, events, controllerRef,
                   startLastEventId, requestHeader, hidden, lastEventIdAtStart>>

\* The transport reports an error of a request only while the request has not
\* been aborted. When the callback returns, the transport opens the request
\* again by itself; when the callback throws, the transport gives up.
onerror(a, err) ==
    /\ a \in 1..Len(attempts)
    /\ ~attempts[a].aborted
    /\ attempts[a].phase \in {"connecting", "open"}
    /\ queued' = 0
    /\ error' = err
    /\ observed' = "error"
    /\ readyState' = CLOSED
    /\ lastStateEvent' = "error"
    /\ op' = "onerror" /\ opCtl' = a
    /\ IF RetryEnabled(retryIntervalMs)
       THEN /\ retryCount < MaxRetry
            /\ BagCardinality(timers) < MaxTimers
            /\ scheduled' = Backoff(retryIntervalMs, maxRetryIntervalMs,
                                    retryCount)
            /\ thrown' = NoError
            /\ timers' = timers (+) SetToBag({[ctl |-> a,
                                               closure |-> startLastEventId]})
            /\ retryCount' = retryCount + 1
            /\ failures' = failures + 1
            /\ attempts' = Settle([attempts EXCEPT ![a].phase = "connecting"], 0)
       ELSE /\ attempts' = Settle([attempts EXCEPT ![a].phase = "failed"], 0)
            /\ scheduled' = Undefined
            /\ thrown' = err
            /\ UNCHANGED <<timers, retryCount, failures>>
    /\ UNCHANGED <<life, config, lastEventId, events, controllerRef,
                   startLastEventId, requestHeader, hidden, lastEventIdAtStart>>

\* The response stream ended.
onclose(a) ==
    /\ CallsBack(a)
    /\ attempts[a].phase = "open"
    /\ attempts' = Settle([attempts EXCEPT ![a].phase = "closed"], 0)
    /\ queued' = 0
    /\ readyState' = CLOSED
    /\ observed' = "close" /\ scheduled' = Undefined /\ thrown' = NoError
    /\ lastStateEvent' = "onclose"
    /\ op' = "onclose" /\ opCtl' = a
    /\ UNCHANGED <<life, config, lastEventId, error, events, controllerRef,
                   retryCount, timers, startLastEventId, requestHeader, hidden,
                   failures, lastEventIdAtStart>>

Next ==
    \/ Mount
    \/ reconnect
    \/ close
    \/ OptionsChange
    \/ Unmount
    \/ visibilityHidden
    \/ visibilityVisible
    \/ \E t \in BagToSet(timers) : TimerFire(t)
    \/ \E a \in 1..MaxAttempts : onopen(a)
    \/ \E a \in 1..MaxAttempts, id \in MessageIds : onmessage(a, id)
    \/ \E a \in 1..MaxAttempts, err \in Errors : onerror(a, err)
    \/ \E a \in 1..MaxAttempts : onclose(a)

Spec == Init /\ [][Next]_vars
\* ================================================================== claims
\* The hook used with a retry policy, as in the README's backoff example, and
\* every setTimeout callback eventually run by the event loop.
LiveInit ==
    /\ Init
    /\ retryIntervalMs = 1000
    /\ maxRetryIntervalMs = 30000
    /\ pauseOnHidden

LiveSpec ==
    /\ LiveInit
    /\ [][Next]_vars
    /\ WF_vars(\E t \in BagToSet(timers) : TimerFire(t))

StartOps == {"mount", "reconnect", "optionsChange", "visible"}

\* the controllers that have not been aborted
Live == {a \in 1..Len(attempts) : ~attempts[a].aborted}

\* ---------------------------------------------------------------------- C1
\* The state §4.1 gives each state-affecting event.
DictatedState(e) ==
    CASE e = "none" -> CONNECTING
      [] e = "start" -> CONNECTING
      [] e = "open" -> OPEN
      [] e = "error" -> CLOSED
      [] e = "onclose" -> CLOSED
      [] e = "close" -> CLOSED

\* C1: readyState is the value of the most recent state-affecting event:
\* CONNECTING after start(), OPEN after the open callback, CLOSED after the
\* error callback, the close callback or close(); a message callback (or any
\* other step) leaves it as it was.
C1_ReadyStateFollowsLastEvent == readyState = DictatedState(lastStateEvent)

\* A message was delivered on an open connection: the state is still OPEN.
C1_Witness ==
    /\ op = "onmessage" /\ lastStateEvent = "open" /\ readyState = OPEN

\* ---------------------------------------------------------------------- C2
RECURSIVE LastNonEmptyId(_)
\* the id of the last message of the history that carries a non-empty id
LastNonEmptyId(h) ==
    IF h = <<>> THEN ""
    ELSE IF h[Len(h)].id \notin {Null, ""} THEN h[Len(h)].id
    ELSE LastNonEmptyId(SubSeq(h, 1, Len(h) - 1))

\* C2: lastEventId is the id of the most recent message that carried a
\* non-empty id (empty before any such message): a message without an id
\* keeps the previous value.
C2_LastEventIdKeptByIdlessMessage == lastEventId = LastNonEmptyId(events)

\* ---------------------------------------------------------------------- C3
\* C3: the request start() opens carries Last-Event-ID equal to the
\* lastEventId the session holds at that moment, whenever that is non-empty.
C3_HeaderIsCurrentLastEventId ==
    lastEventIdAtStart # "" => requestHeader = lastEventIdAtStart

\* ---------------------------------------------------------------------- C4
\* C4: at most one controller is un-aborted, and every start() leaves exactly
\* the controller it installed un-aborted, the previous one aborted.
C4_OneLiveAttempt ==
    /\ [](Cardinality(Live) <= 1)
    /\ [][Len(attempts') > Len(attempts) =>
            /\ controllerRef' = Len(attempts')
            /\ {a \in 1..Len(attempts') : ~attempts'[a].aborted}
                 = {controllerRef'}]_vars

\* reconnect() right after another start(): the earlier request had not even
\* opened, and the third controller is the only live one.
C4_Witness ==
    /\ op = "reconnect" /\ Len(attempts) = 3 /\ queued = 2
    /\ attempts[1].aborted /\ attempts[2].aborted /\ ~attempts[3].aborted

\* ---------------------------------------------------------------------- C5
\* the delays §8 lists for base 1000 and cap 30000
DelayTable == <<1000, 2000, 4000, 8000, 16000, 30000, 30000>>

\* C5: the error callback that is failure number n since the last open
\* (n from 0) schedules the retry after min(base * 2^n, cap), cap unbounded
\* when absent; for base 1000 and cap 30000 these are the delays of §8.
\* (failures already counts the error of the step.)
C5_BackoffDelay ==
    (op = "onerror" /\ retryIntervalMs # Undefined) =>
        /\ failures >= 1
        /\ maxRetryIntervalMs # Undefined =>
             /\ scheduled <= maxRetryIntervalMs
             /\ scheduled \in {retryIntervalMs * 2^(failures - 1),
                               maxRetryIntervalMs}
             /\ scheduled <= retryIntervalMs * 2^(failures - 1)
        /\ maxRetryIntervalMs = Undefined =>
             scheduled = retryIntervalMs * 2^(failures - 1)
        /\ (retryIntervalMs = 1000 /\ maxRetryIntervalMs = 30000
              /\ failures <= Len(DelayTable)) =>
             scheduled = DelayTable[failures]

\* The sixth failure in a row: 32000 is capped to 30000.
C5_Witness ==
    /\ op = "onerror" /\ maxRetryIntervalMs = 30000
    /\ failures = 6 /\ scheduled = 30000
\* ---------------------------------------------------------------------- C6
\* C6, as claimed: with no retry policy, once an error has been reported no
\* timer exists and no step opens a connection other than one the caller
\* asks for (reconnect(), or new options).
C6_ClosedUntilCallerReconnects ==
    [][(retryIntervalMs = Undefined /\ error # NoError) =>
          /\ timers' = EmptyBag
          /\ Len(attempts') > Len(attempts) =>
               op' \in {"reconnect", "optionsChange"}]_vars

\* C6, amended: with no retry policy the error callback closes the session
\* and creates no timer (none ever exists), and from then on the state stays
\* CLOSED and no connection is opened until start() runs again, which only
\* reconnect(), new options or a visibility-visible event make it do.
C6_TerminalErrorUntilStart ==
    [][retryIntervalMs = Undefined =>
          /\ timers' = EmptyBag
          /\ op' # "timer"
          /\ op' = "onerror" =>
               /\ readyState' = CLOSED
               /\ scheduled' = Undefined
               /\ attempts'[opCtl'].phase = "failed"
          /\ (lastStateEvent = "error" /\ op' \notin StartOps) =>
               /\ readyState' = CLOSED
               /\ lastStateEvent' \in {"error", "close"}
               /\ Len(attempts') = Len(attempts)
          /\ (lastStateEvent = "error" /\ Len(attempts') > Len(attempts)) =>
               op' \in {"reconnect", "optionsChange", "visible"}]_vars

\* The error was reported with no retry policy: CLOSED, nothing scheduled.
C6_Witness ==
    /\ retryIntervalMs = Undefined /\ op = "onerror"
    /\ readyState = CLOSED /\ timers = EmptyBag /\ Live = {controllerRef}

\* ---------------------------------------------------------------------- C7
\* C7: after a visibility change to hidden the current attempt is aborted
\* and the exposed state is CLOSED.
C7_HiddenClosesState ==
    op = "hidden" => (Live = {} /\ readyState = CLOSED)

\* ---------------------------------------------------------------------- C8
\* C8: close() and the hidden transition do not invoke the error observer,
\* do not set the error, do not change retryCount, and leave lastEventId and
\* the message history as they were.
C8_CancellationIsNoError ==
    [][op' \in {"close", "hidden"} =>
          /\ observed' # "error"
          /\ error' = error
          /\ retryCount' = retryCount
          /\ lastEventId' = lastEventId
          /\ events' = events
          /\ timers' = timers]_vars

\* The page went hidden on a session that had failed, retried and received
\* a message: none of it changed.
C8_Witness ==
    /\ op = "hidden" /\ retryCount >= 1 /\ error # NoError
    /\ lastEventId = "a" /\ Len(events) >= 1 /\ Live = {}

\* ---------------------------------------------------------------------- C9
\* C9: a visibility change to visible always runs start(): the state becomes
\* CONNECTING with a fresh, un-aborted controller, whether or not a retry
\* timer is pending, and every timer pending then belongs to an aborted
\* controller; the timer of an aborted controller opens no connection when
\* it runs.
C9_VisibleRestartsAlone ==
    [][/\ op' = "visible" =>
            /\ readyState' = CONNECTING
            /\ Len(attempts') = Len(attempts) + 1
            /\ controllerRef' = Len(attempts')
            /\ ~attempts'[controllerRef'].aborted
            /\ timers' = timers
            /\ \A t \in BagToSet(timers') : attempts'[t.ctl].aborted
       /\ (op' = "timer" /\ attempts[opCtl'].aborted) =>
            /\ Len(attempts') = Len(attempts)
            /\ controllerRef' = controllerRef
            /\ readyState' = readyState]_vars

\* The page became visible while a retry timer of the failed attempt was
\* pending: the new controller is the only live one, the timer's is aborted.
C9_Witness ==
    /\ op = "visible" /\ readyState = CONNECTING /\ error # NoError
    /\ BagCardinality(timers) >= 1 /\ Live = {controllerRef}
    /\ \A t \in BagToSet(timers) : t.ctl # controllerRef

\* --------------------------------------------------------------------- C10
\* C10, as claimed: after a visibility change to visible retryCount is 0.
C10_VisibleResetsRetryCount ==
    op = "visible" => retryCount = 0

\* C10, amended: the visible transition reconnects at once (CONNECTING) and
\* leaves retryCount as it was; retryCount goes back to 0 only in an open
\* callback.
C10_VisibleKeepsRetryCount ==
    [][/\ op' = "visible" =>
            (readyState' = CONNECTING /\ retryCount' = retryCount)
       /\ (retryCount # 0 /\ retryCount' = 0) => op' = "onopen"]_vars

\* Visible after two failures: the counter is still 2.
C10_Witness ==
    /\ op = "visible" /\ retryCount = 2 /\ readyState = CONNECTING
\* --------------------------------------------------------------------- C11
\* C11, as claimed: after close() no connection is opened, whatever timer or
\* external event follows, until the caller starts one (reconnect(), or new
\* options).
C11_ClosedUntilCallerStarts ==
    [][(life = "mounted" /\ lastStateEvent = "close" /\ Live = {}
          /\ Len(attempts') > Len(attempts)) =>
            op' \in {"reconnect", "optionsChange"}]_vars

\* C11, amended: close() aborts the current controller, so every retry timer
\* pending then belongs to an aborted controller and opens nothing when it
\* runs; while no controller is live a connection is opened only by start()
\* run again, which reconnect(), new options and the visibility-visible
\* event do.
C11_CloseDisarmsPendingRetry ==
    [][/\ op' = "close" =>
            /\ {a \in 1..Len(attempts') : ~attempts'[a].aborted} = {}
            /\ timers' = timers
            /\ readyState' = CLOSED
       /\ (Live = {} /\ Len(attempts') > Len(attempts)) =>
            op' \in StartOps
       /\ (Live = {} /\ op' = "timer") =>
            /\ Len(attempts') = Len(attempts)
            /\ readyState' = readyState]_vars

\* A retry timer that was pending at close() has run: still CLOSED, no new
\* controller.
C11_Witness ==
    /\ op = "timer" /\ lastStateEvent = "close" /\ readyState = CLOSED
    /\ Live = {} /\ error # NoError /\ life = "mounted"
    /\ Len(attempts) = 1 /\ timers = EmptyBag
\* --------------------------------------------------------------------- C12
Callbacks == {"onopen", "onmessage", "onerror", "onclose"}

\* C12: a callback delivered by an attempt whose controller has been aborted
\* (superseded by a newer start(), or cancelled by close() or the hidden
\* handler) changes none of readyState, lastEventId, error, retryCount and
\* events, schedules no retry and invokes no observer.
C12_StaleCallbackSuppressed ==
    [][(op' \in Callbacks /\ attempts[opCtl'].aborted) =>
          /\ UNCHANGED <<readyState, lastEventId, error, retryCount, events,
                         timers>>
          /\ observed' = "none"]_vars
\* --------------------------------------------------------------------- C13
\* C13: every transport error callback stores the error in the error state
\* and calls the error observer with it, with or without a retry policy and
\* whether or not a retry is scheduled.
C13_EveryErrorObservable ==
    op = "onerror" => /\ observed = "error"
                      /\ error \in Errors
                      /\ thrown \in {NoError, error}

\* A retried error (timer scheduled) that was recorded and observed.
C13_Witness ==
    /\ op = "onerror" /\ scheduled # Undefined /\ retryCount >= 1
    /\ error \in Errors /\ observed = "error"
    /\ BagCardinality(timers) >= 1

\* --------------------------------------------------------------------- C14
\* C14: the error callback never throws; for every transport error, with or
\* without a retry policy, it returns normally.
C14_ErrorCallbackReturns == op = "onerror" => thrown = NoError
\* --------------------------------------------------------------------- C15
\* C15: a clean close callback sets CLOSED and calls the close observer,
\* schedules no retry and leaves retryCount and error alone, even with a
\* retry policy; afterwards the session stays closed until start() is called
\* from outside (read generously: reconnect(), new options or the visible
\* handler), never by a retry timer.
C15_CleanCloseIsTerminal ==
    [][/\ op' = "onclose" =>
            /\ readyState' = CLOSED /\ observed' = "close"
            /\ UNCHANGED <<retryCount, error, timers>>
       /\ (lastStateEvent = "onclose" /\ life = "mounted"
             /\ controllerRef # 0 /\ attempts[controllerRef].phase = "closed") =>
            /\ Len(attempts') > Len(attempts) => op' \in StartOps
            /\ readyState' # CLOSED => op' \in StartOps]_vars
\* --------------------------------------------------------------------- C16
\* C16: retryCount equals the number of retried error callbacks since the
\* last open callback: onopen resets it, a retried error adds one, nothing
\* else changes it; a manual reconnect() after a failure keeps it.
C16_RetryCountCountsFailures ==
    /\ retryCount = failures
    /\ retryCount \in 0..MaxRetry
    /\ op = "onopen" => retryCount = 0
    /\ (op = "onerror" /\ scheduled # Undefined) => retryCount >= 1

\* reconnect() right after a failure, with the count still standing.
C16_Witness ==
    /\ op = "reconnect" /\ retryCount >= 1 /\ error # NoError
    /\ readyState = CONNECTING /\ lastStateEvent = "start"
\* --------------------------------------------------------------------- C17
\* The pending retry timers that would still call start(): their controller
\* is not aborted.
ArmedTimers == {t \in BagToSet(timers) : ~attempts[t.ctl].aborted}

\* C17: at most one retry timer is outstanding at any time. Timers of an
\* aborted controller are counted as cancelled here, so the formula asks only
\* that no second timer is scheduled while an armed one is pending.
C17_OnePendingRetryTimer ==
    /\ Cardinality(ArmedTimers) <= 1
    /\ \A t \in ArmedTimers : CopiesIn(t, timers) = 1
\* --------------------------------------------------------------------- C18
\* C18: when a retry delay elapses, start() runs exactly when the controller
\* of the attempt that scheduled the retry has not been aborted since (by
\* start(), reconnect(), close(), the hidden handler, unmount or an options
\* change); after unmount no connection is started any more.
C18_RetryOnlyIfNotSuperseded ==
    [][/\ op' = "timer" =>
            /\ Len(attempts') > Len(attempts) <=> ~attempts[opCtl'].aborted
            /\ attempts[opCtl'].aborted =>
                 UNCHANGED <<readyState, controllerRef, requestHeader>>
       /\ life = "unmounted" =>
            /\ Len(attempts') = Len(attempts)
            /\ UNCHANGED <<controllerRef, requestHeader>>]_vars

\* After unmount, the retry timer of the failed attempt has run and found
\* its controller aborted.
C18_Witness ==
    /\ life = "unmounted" /\ op = "timer" /\ Live = {}
    /\ error # NoError /\ readyState = CLOSED /\ timers = EmptyBag
\* --------------------------------------------------------------------- C19
\* C19: with a retry policy, a transport error of attempt a (the current
\* one) is eventually followed by a new connection attempt made by start(),
\* unless the attempt is cancelled first (close(), hidden, unmount), which
\* leaves controller a aborted. start() is bounded by MaxAttempts, so the
\* last attempt is left out.
C19_ErrorLeadsToReconnect ==
    \A a \in 1..(MaxAttempts - 1) :
        (op = "onerror" /\ opCtl = a /\ scheduled # Undefined)
            ~> \/ Len(attempts) > a
               \/ a <= Len(attempts) /\ attempts[a].aborted

\* The retry timer of a failed attempt has run and started the next attempt.
C19_Witness ==
    /\ op = "timer" /\ opCtl = 1 /\ Len(attempts) = 2
    /\ attempts[1].aborted /\ readyState = CONNECTING
    /\ error # NoError /\ retryCount >= 1
\* --------------------------------------------------------------------- C20
\* C20: once readyState is CLOSED it leaves CLOSED only by a connect action
\* (retry timer, reconnect(), visible handler, or the auto-start effect),
\* which sets CONNECTING; no transport callback moves it from CLOSED to OPEN.
\* Callbacks of an aborted controller (the subject of C12) are left aside.
C20_InertWhileClosed ==
    [][(/\ readyState = CLOSED /\ readyState' # CLOSED
        /\ ~(op' \in Callbacks /\ attempts[opCtl'].aborted)) =>
          /\ readyState' = CONNECTING
          /\ op' \in StartOps \cup {"timer"}]_vars
====
